---------------------------- MODULE Spec2Model ----------------------------
(***************************************************************************)
(* A model of the streaming voice pipeline of RealtimeAIVoiceChat          *)
(* (src/core/pipeline.py, src/core/vad.py).                                *)
(*                                                                         *)
(* The pipeline is five asyncio tasks on one event loop, joined by four    *)
(* asyncio.Queue objects.  A step of the model is the code a task runs     *)
(* between two awaits.  Strings are sequences of one-character strings.    *)
(* A VAD buffer is the window [lo, hi) it holds of the resampled stream.   *)
(***************************************************************************)
EXTENDS Integers, Sequences, FiniteSets, TLC

VARIABLES
    queues,          \* the four asyncio.Queue objects, by attribute name
    is_tts_playing,  \* VoicePipeline.is_tts_playing
    shutdown_event,  \* VoicePipeline.shutdown_event (set or not)
    tasks,           \* VoicePipeline.tasks: the state of each stage task
    waiter,          \* the task wrapping shutdown_event.wait() in start()
    start_pc,        \* where start() is
    audio_buffer,    \* VADProcessor._audio_buffer
    vad,             \* locals of the audio_processing task
    stt,             \* locals of the transcription task
    agent,           \* locals of the generate_agent_response task
    ws,              \* the websocket: connected or not, and the messages received
    mux,             \* locals of the send_json_response task
    sent,            \* the types of the events written to the websocket, by turn
    offers,          \* what producers offered to the queues (history)
    adapters         \* a call of an STT adapter, of the TTS adapter, and an LLM agent

vars == <<queues, is_tts_playing, shutdown_event, tasks, waiter, start_pc,
          audio_buffer, vad, stt, agent, ws, mux, sent, offers, adapters>>

-----------------------------------------------------------------------------
(* Program constants *)

MAX_QUEUE_SIZE == 60
header_bytes == 10
received_audio_sample_rate == 48000
audio_sample_rate == 16000
min_silence_duration_ms == 500
speech_pad_samples_ms == 100
max_continuous_speech_s == 20
\* LLM._create_messages keeps the last 40 messages
history_window == 40
\* min_continuous_speech_s is 0.5: kept as the fraction 1/2
min_continuous_speech_num == 1
min_continuous_speech_den == 2

max_audio_buffer == max_continuous_speech_s * audio_sample_rate
min_audio_samples == (min_continuous_speech_num * audio_sample_rate) \div min_continuous_speech_den
min_silence_samples == min_silence_duration_ms * (audio_sample_rate \div 1000)
resample_ratio == received_audio_sample_rate \div audio_sample_rate

(* Bounds of the model *)

MaxMsgs == 4        \* client messages received in a session
MaxFrames == 2      \* frames a client sends in the specification of turns
MaxChunks == 1      \* chunks a collaborator stream (STT, agent, TTS) yields
MaxOffers == 62     \* items offered to a queue in the queue specification
MaxBytes == 4       \* bytes a TTS provider sends in the specification of adapters
MaxCalls == 21      \* calls of an LLM object in the specification of adapters
MaxPlainCalls == 1  \* of which calls of generate (the others are generate_stream)

-----------------------------------------------------------------------------
(* Names *)

INCOMING == "incoming_queue"
PROCESSED == "processed_audio_queue"
TRANSCRIPTION == "transcription_queue"
RESPONSE == "response_queue"
QueueNames == {INCOMING, PROCESSED, TRANSCRIPTION, RESPONSE}

T_INGEST == "incoming_data"
T_VAD == "audio_processing"
T_STT == "transcription"
T_AGENT == "generate_agent_response"
T_MUX == "send_json_response"
TaskNames == {T_INGEST, T_VAD, T_STT, T_AGENT, T_MUX}

TRANSCRIPTION_START == "user.transcript.start"
TRANSCRIPTION_TEXT == "user.transcript.text"
TRANSCRIPTION_TEXT_DELTA == "user.transcript.text.delta"
TRANSCRIPTION_END == "user.transcript.end"
AI_RESPONSE_TEXT_START == "ai.response.text.start"
AI_RESPONSE_TEXT_DELTA == "ai.response.text.delta"
AI_RESPONSE_TEXT_END == "ai.response.text.end"
AI_RESPONSE_SPEECH_START == "ai.response.speech.start"
AI_RESPONSE_SPEECH_DELTA == "ai.response.speech.delta"
AI_RESPONSE_SPEECH_END == "ai.response.speech.end"

-----------------------------------------------------------------------------
(* Queues *)

\* a mutant: the put never refuses
AddQueueNoWaitUnbounded(q, item) == Append(q, item)

\* a mutant: a full queue gives up its oldest item
AddQueueNoWaitDropOldest(q, item) ==
    IF Len(q) >= MAX_QUEUE_SIZE THEN Append(Tail(q), item) ELSE Append(q, item)

\* _add_queue_no_wait: put_nowait, and QueueFull is logged and swallowed
AddQueueNoWait(q, item) ==
    IF Len(q) >= MAX_QUEUE_SIZE THEN q ELSE Append(q, item)

\* the queues after _add_queue_no_wait(self.<name>, item)
Put(qs, name, item) == [qs EXCEPT ![name] = AddQueueNoWait(@, item)]

\* a mutant: get returns the head and leaves it in the queue
GotKeepsHead(qs, name) == qs

\* the queues after <name>.get() returned the head
Got(qs, name) == [qs EXCEPT ![name] = Tail(@)]


-----------------------------------------------------------------------------
(* Events *)

\* _create_event_message: a timestamp of 0 stands for the server's clock,
\* which the code also takes when the given timestamp is None or 0; content
\* <<>> is a message without the content key.  turn names the AudioChunk
\* the event was created for (not a field of the program's message).
CreateEventMessage(type, content, timestamp, turn) ==
    [type |-> type, timestamp |-> timestamp, content |-> content, turn |-> turn]

\* _add_event_message
AddEventMessage(qs, type, content, timestamp, turn) ==
    Put(qs, RESPONSE, CreateEventMessage(type, content, timestamp, turn))

RECURSIVE AddEventMessages(_, _)
\* _add_event_message for each of evs = <<type, content, timestamp, turn>>, in order
AddEventMessages(qs, evs) ==
    IF evs = <<>> THEN qs
    ELSE AddEventMessages(
             AddEventMessage(qs, Head(evs)[1], Head(evs)[2], Head(evs)[3], Head(evs)[4]),
             Tail(evs))

\* the event types the client has of a turn
SentOf(log, turn) == IF turn \in DOMAIN log THEN log[turn] ELSE {}

\* the client's log after websocket.send_json(ev)
Delivered(log, ev) ==
    [t \in DOMAIN log \cup {ev.turn} |->
        IF t = ev.turn THEN SentOf(log, t) \cup {ev.type} ELSE log[t]]

-----------------------------------------------------------------------------
(* The client's messages *)

TTS_START_TEXT == "{\"type\": \"tts_start\"}"
TTS_END_TEXT == "{\"type\": \"tts_end\"}"
OTHER_TYPE_TEXT == "{\"type\": \"ping\"}"
NO_TYPE_TEXT == "{}"
NOT_JSON_TEXT == "tts_start"

TextMessages == {TTS_START_TEXT, TTS_END_TEXT, OTHER_TYPE_TEXT, NO_TYPE_TEXT, NOT_JSON_TEXT}

\* json.loads on the texts above: ok is FALSE where it raises JSONDecodeError
JsonLoads(text) ==
    CASE text = TTS_START_TEXT -> [ok |-> TRUE, has_type |-> TRUE, type |-> "tts_start"]
      [] text = TTS_END_TEXT -> [ok |-> TRUE, has_type |-> TRUE, type |-> "tts_end"]
      [] text = OTHER_TYPE_TEXT -> [ok |-> TRUE, has_type |-> TRUE, type |-> "ping"]
      [] text = NO_TYPE_TEXT -> [ok |-> TRUE, has_type |-> FALSE, type |-> ""]
      [] OTHER -> [ok |-> FALSE, has_type |-> FALSE, type |-> ""]

\* lengths of binary messages: too short for the header, a header alone,
\* a header and an odd payload, a header and one second of 48 kHz PCM
FrameSizes == {5, 10, 13, 96010}

BinaryMessages ==
    {[kind |-> "bytes", nbytes |-> n, flag |-> 1, timestamp_ms |-> 1500, text |-> ""] :
        n \in FrameSizes}

TextFrames ==
    {[kind |-> "text", nbytes |-> 0, flag |-> 0, timestamp_ms |-> 0, text |-> t] :
        t \in TextMessages}

DisconnectMessage ==
    [kind |-> "disconnect", nbytes |-> 0, flag |-> 0, timestamp_ms |-> 0, text |-> ""]

ClientMessages == BinaryMessages \cup TextFrames \cup {DisconnectMessage}

NoMessage == [kind |-> "none", nbytes |-> 0, flag |-> 0, timestamp_ms |-> 0, text |-> ""]

-----------------------------------------------------------------------------
(* AudioChunk *)

\* id names the object (not a field of the program's dataclass); rx_tts
\* records whether Ingest received the frame after a tts_start and before
\* the next tts_end (nor is it a field).
\* audio is a byte count for a frame and a sequence of sample ranges for
\* a Segment; transcript None is <<>>.
AudioChunk(flag, timestamp, audio, transcript, id, rx_tts) ==
    [flag |-> flag, timestamp |-> timestamp, audio |-> audio,
     transcript |-> transcript, id |-> id, rx_tts |-> rx_tts]

NoChunk == AudioChunk(0, 0, 0, <<>>, -1, FALSE)

\* the scripted opening prompt start() seeds the transcription queue with
WarmUpTranscript ==
    <<"S", "t", "a", "r", "t", " ", "t", "h", "e", " ", "c", "o", "n", "v", "e", "r", "s",
      "a", "t", "i", "o", "n", " ", "w", "i", "t", "h", " ", "A", "k", "a", "s", "h">>
WarmUpChunk == AudioChunk(0, 0, <<>>, WarmUpTranscript, 0, FALSE)

-----------------------------------------------------------------------------
(* Tasks *)

\* a stage at the top of its loop: `while not self.shutdown_event.is_set()`
LoopTop(name) ==
    [tasks EXCEPT ![name] = IF shutdown_event THEN "done" ELSE "running"]

\* a stage that caught an exception outside its loop, logged it and returned
Returned(name) == [tasks EXCEPT ![name] = "done"]

Running(name) == tasks[name] = "running"

\* _audio_buffer holds the samples lo..hi-1 of the resampled stream; frames
\* lists, for each frame appended, where its samples start in the stream and
\* its timestamp, and heard tells whether the VAD model has reported speech
\* so far (the program keeps the samples only).
EmptyBuffer(buf) == [buf EXCEPT !.lo = buf.hi]
BufSize(buf) == buf.hi - buf.lo

IdleVad == [pc |-> "get", chunk |-> NoChunk]
IdleStt == [pc |-> "get", chunk |-> NoChunk, transcript |-> <<>>, n |-> 0]
IdleAgent ==
    [pc |-> "get", chunk |-> NoChunk, text_buffer |-> <<>>,
     first_response_chunk |-> TRUE, first_speech_chunk |-> TRUE,
     tts_text |-> <<>>, n |-> 0, m |-> 0]

IdleMux == [pc |-> "get", response |-> CreateEventMessage("", <<>>, 0, -1)]

NoOffers == [which |-> "", offered |-> 0, taken |-> <<>>, dropped |-> {}]

\* no adapter is called: pc "none" everywhere.  stt is a call of
\* stt_stream (class and model of the adapter, the transcription requests
\* issued and the chunks yielded so far), tts a call of tts_stream (its
\* buffer, the buffers yielded and the bytes the provider has sent), llm an
\* LLM object (self.messages by role, and how often it was called)
IdleAdapters ==
    [stt |-> [pc |-> "none", class |-> "", model |-> "", requests |-> 0, yielded |-> <<>>],
     tts |-> [pc |-> "none", buffer |-> <<>>, yielded |-> <<>>, received |-> <<>>],
     llm |-> [pc |-> "none", messages |-> <<>>, calls |-> 0, plain |-> 0]]

InitPipeline ==
    /\ queues = [n \in QueueNames |-> <<>>]
    /\ is_tts_playing = FALSE
    /\ shutdown_event = FALSE
    /\ tasks = [t \in TaskNames |-> "pending"]
    /\ waiter = "pending"
    /\ start_pc = "init"
    /\ audio_buffer = [lo |-> 0, hi |-> 0, frames |-> <<>>, heard |-> FALSE]
    /\ vad = IdleVad
    /\ stt = IdleStt
    /\ agent = IdleAgent
    /\ ws = [connected |-> TRUE, count |-> 0, last |-> NoMessage, window |-> FALSE]
    /\ mux = IdleMux
    /\ sent = <<>>

Init == InitPipeline /\ offers = NoOffers /\ adapters = IdleAdapters

-----------------------------------------------------------------------------
(* Lifecycle: start, stop, _cleanup *)

\* a mutant: start() does not seed the transcription queue
StartWithoutSeed ==
    /\ start_pc = "init"
    /\ tasks' = [t \in TaskNames |-> "running"]
    /\ waiter' = "waiting"
    /\ start_pc' = "waiting"
    /\ UNCHANGED <<queues, is_tts_playing, shutdown_event, audio_buffer, vad, stt, agent,
                   ws, mux, sent, offers, adapters>>

\* start(): create the five tasks and the shutdown waiter, seed the
\* transcription queue, and wait
Start ==
    /\ start_pc = "init"
    /\ tasks' = [t \in TaskNames |-> "running"]
    /\ waiter' = "waiting"
    /\ queues' = Put(queues, TRANSCRIPTION, WarmUpChunk)
    /\ start_pc' = "waiting"
    /\ UNCHANGED <<is_tts_playing, shutdown_event, audio_buffer, vad, stt, agent,
                   ws, mux, sent, offers, adapters>>

\* stop()
Stop ==
    /\ start_pc = "waiting"
    /\ ~shutdown_event
    /\ shutdown_event' = TRUE
    /\ UNCHANGED <<queues, is_tts_playing, tasks, waiter, start_pc, audio_buffer,
                   vad, stt, agent, ws, mux, sent, offers, adapters>>

\* the task of shutdown_event.wait() completes
WaiterFires ==
    /\ waiter = "waiting"
    /\ shutdown_event
    /\ waiter' = "done"
    /\ UNCHANGED <<queues, is_tts_playing, shutdown_event, tasks, start_pc,
                   audio_buffer, vad, stt, agent, ws, mux, sent, offers, adapters>>

\* a mutant: the shutdown waiter is not among the tasks start() waits for
WaitReturnsOnStageOnly ==
    /\ start_pc = "waiting"
    /\ \E t \in TaskNames : tasks[t] \in {"done", "cancelled"}
    /\ start_pc' = "cleanup"
    /\ UNCHANGED <<queues, is_tts_playing, shutdown_event, tasks, waiter,
                   audio_buffer, vad, stt, agent, ws, mux, sent, offers, adapters>>

\* asyncio.wait(..., return_when=FIRST_COMPLETED) returns
WaitReturns ==
    /\ start_pc = "waiting"
    /\ \/ waiter = "done"
       \/ \E t \in TaskNames : tasks[t] \in {"done", "cancelled"}
    /\ start_pc' = "cleanup"
    /\ UNCHANGED <<queues, is_tts_playing, shutdown_event, tasks, waiter,
                   audio_buffer, vad, stt, agent, ws, mux, sent, offers, adapters>>

\* _clear_queues: the three queues it lists are emptied
ClearQueues(qs) ==
    [n \in QueueNames |-> IF n \in {INCOMING, PROCESSED, TRANSCRIPTION} THEN <<>> ELSE qs[n]]

\* a mutant: _cleanup clears the queues and cancels nothing
CleanupWithoutCancel ==
    /\ start_pc = "cleanup"
    /\ shutdown_event => waiter = "done"
    /\ queues' = ClearQueues(queues)
    /\ start_pc' = "done"
    /\ UNCHANGED <<is_tts_playing, shutdown_event, tasks, waiter, audio_buffer, vad,
                   stt, agent, ws, mux, sent, offers, adapters>>

\* _cleanup: cancel the tasks of self.tasks that are not done, gather them,
\* clear the queues.  With the event set the waiter is ready to run, and
\* the event loop runs it before the gather returns.
Cleanup ==
    /\ start_pc = "cleanup"
    /\ shutdown_event => waiter = "done"
    /\ tasks' = [t \in TaskNames |-> IF tasks[t] = "running" THEN "cancelled" ELSE tasks[t]]
    /\ queues' = ClearQueues(queues)
    /\ start_pc' = "done"
    /\ UNCHANGED <<is_tts_playing, shutdown_event, waiter, audio_buffer, vad, stt,
                   agent, ws, mux, sent, offers, adapters>>


\* a stage's wait_for(..., timeout=1.0) times out with the shutdown flag set,
\* and its loop ends
TimeoutExit(t) ==
    /\ Running(t)
    /\ shutdown_event
    /\ CASE t = T_INGEST -> TRUE
         [] t = T_VAD -> vad.pc = "get" /\ queues[INCOMING] = <<>>
         [] t = T_STT -> stt.pc = "get" /\ queues[PROCESSED] = <<>>
         [] t = T_AGENT -> agent.pc = "get" /\ queues[TRANSCRIPTION] = <<>>
         [] t = T_MUX -> mux.pc = "get" /\ queues[RESPONSE] = <<>>
    /\ tasks' = Returned(t)
    /\ UNCHANGED <<queues, is_tts_playing, shutdown_event, waiter, start_pc,
                   audio_buffer, vad, stt, agent, ws, mux, sent, offers, adapters>>

-----------------------------------------------------------------------------
(* Ingest: process_incoming_data *)

\* whether the client's last control message, msg included, is a tts_start
\* with no tts_end after it (the client's view, not the program's flag)
WindowAfter(msg) ==
    CASE msg.kind = "text" /\ msg.text = TTS_START_TEXT -> TRUE
      [] msg.kind = "text" /\ msg.text = TTS_END_TEXT -> FALSE
      [] OTHER -> ws.window

\* a mutant: the gate on is_tts_playing is missing
TakesBinaryAlways(msg) == msg.kind = "bytes"

\* `"bytes" in data and self.is_tts_playing is False`
TakesBinary(msg) == msg.kind = "bytes" /\ is_tts_playing = FALSE

\* `elif "text" in data`
TakesText(msg) == ~TakesBinary(msg) /\ msg.kind = "text"

\* json.loads raises, or data["type"] raises KeyError
TextRaises(msg) ==
    TakesText(msg) /\ (~JsonLoads(msg.text).ok \/ ~JsonLoads(msg.text).has_type)

\* the AudioChunk made of a binary message: struct.unpack("!HQ") of the
\* header, the rest as audio, timestamp_ms // 1_000 as timestamp
FrameOf(msg, id) ==
    AudioChunk(msg.flag, msg.timestamp_ms \div 1000, msg.nbytes - header_bytes,
               <<>>, id, ws.window)

\* a mutant: the length of a binary message is not checked
IngestQueuesAnyLength(msg, id) ==
    IF TakesBinary(msg) THEN Put(queues, INCOMING, FrameOf(msg, id)) ELSE queues

\* a mutant: Ingest puts the frame on the processed-audio queue
IngestQueuesSkipVad(msg, id) ==
    IF TakesBinary(msg) /\ msg.nbytes >= header_bytes
    THEN Put(queues, PROCESSED, FrameOf(msg, id))
    ELSE queues

\* the incoming queue after one message
IngestQueues(msg, id) ==
    IF TakesBinary(msg) /\ msg.nbytes >= header_bytes
    THEN Put(queues, INCOMING, FrameOf(msg, id))
    ELSE queues

\* a mutant: tts_start is not acted on
IngestFlagNeverSet(msg) == is_tts_playing

\* is_tts_playing after one message
IngestFlag(msg) ==
    IF TakesText(msg) /\ ~TextRaises(msg)
    THEN CASE JsonLoads(msg.text).type = "tts_start" -> TRUE
           [] JsonLoads(msg.text).type = "tts_end" -> FALSE
           [] OTHER -> is_tts_playing
    ELSE is_tts_playing

\* one turn of the loop of process_incoming_data: receive() returned msg
ProcessIncomingData(msg) ==
    /\ Running(T_INGEST)
    /\ ws.connected
    /\ ws' = [connected |-> msg.kind # "disconnect", count |-> ws.count + 1,
              last |-> msg, window |-> WindowAfter(msg)]
    /\ queues' = IngestQueues(msg, ws.count + 1)
    /\ is_tts_playing' = IngestFlag(msg)
    /\ tasks' = IF TextRaises(msg) THEN Returned(T_INGEST) ELSE LoopTop(T_INGEST)
    /\ UNCHANGED <<shutdown_event, waiter, start_pc, audio_buffer, vad, stt, agent,
                   mux, sent, offers, adapters>>

\* a mutant: the error of receive() after the disconnect message is taken
\* like a timeout, and the loop goes on
ReceiveLoops ==
    /\ Running(T_INGEST)
    /\ ~ws.connected
    /\ tasks' = LoopTop(T_INGEST)
    /\ UNCHANGED <<queues, is_tts_playing, shutdown_event, waiter, start_pc,
                   audio_buffer, vad, stt, agent, ws, mux, sent, offers, adapters>>

\* receive() after the disconnect message raises RuntimeError, which
\* `except Exception` logs
ReceiveRaises ==
    /\ Running(T_INGEST)
    /\ ~ws.connected
    /\ tasks' = Returned(T_INGEST)
    /\ UNCHANGED <<queues, is_tts_playing, shutdown_event, waiter, start_pc,
                   audio_buffer, vad, stt, agent, ws, mux, sent, offers, adapters>>

-----------------------------------------------------------------------------
(* VADSegmenter: process_audio_chunk of the pipeline and of VADProcessor *)

\* audio_resampler on nbytes of PCM: -1 where it raises (np.frombuffer on an
\* odd count, np.max on an empty array), else the length of the result
AudioResampler(nbytes, ratio) ==
    IF nbytes % 2 = 1 \/ nbytes = 0 THEN -1
    ELSE ((nbytes \div 2) + ratio - 1) \div ratio

\* the speech ranges the VAD model may report for a buffer of `size` samples:
\* none, the whole buffer, all but a trailing silence of the minimum length
VadResults(size) ==
    {<<>>, <<[start |-> 0, end |-> size]>>}
    \cup (IF size > min_silence_samples
          THEN {<<[start |-> 0, end |-> size - min_silence_samples]>>}
          ELSE {})

\* a mutant: only the first range the VAD reported is taken
SpeechSamplesFirstOnly(buf, ts) ==
    IF ts = <<>> THEN <<>>
    ELSE <<[start |-> buf.lo + ts[1].start, end |-> buf.lo + ts[1].end]>>

\* the ranges of the buffer as ranges of the stream
SpeechSamples(buf, ts) ==
    [i \in 1..Len(ts) |-> [start |-> buf.lo + ts[i].start, end |-> buf.lo + ts[i].end]]

\* a mutant: whatever the VAD says, the buffer is emitted and cleared
SegmentationFlushesAlways(buf, ts) ==
    [buffer |-> EmptyBuffer(buf), emit |-> TRUE,
     audio |-> <<[start |-> buf.lo, end |-> buf.hi]>>]

\* a mutant: a full buffer without speech is kept whole
SegmentationWithoutWindow(buf, ts) ==
    LET size == BufSize(buf)
        buffer_is_full == size >= max_audio_buffer
        none == [buffer |-> buf, emit |-> FALSE, audio |-> <<>>]
    IN  IF ts = <<>>
        THEN none
        ELSE LET speech_start_sample == ts[1].start
                 speech_end_sample == ts[Len(ts)].end
                 silence_samples == size - speech_end_sample
             IN  IF silence_samples >= min_silence_samples
                 THEN [buffer |-> [buf EXCEPT !.lo = buf.lo + speech_end_sample],
                       emit |-> TRUE, audio |-> SpeechSamples(buf, ts)]
                 ELSE IF buffer_is_full
                      THEN IF speech_start_sample = 0
                           THEN [buffer |-> EmptyBuffer(buf), emit |-> TRUE,
                                 audio |-> SpeechSamples(buf, ts)]
                           ELSE [none EXCEPT !.buffer =
                                     [buf EXCEPT !.lo = buf.lo + speech_start_sample]]
                      ELSE none

\* process_audio_chunk after the VAD ran: the buffer it leaves and whether
\* it returns the chunk (with the speech samples) or None
Segmentation(buf, ts) ==
    LET size == BufSize(buf)
        buffer_is_full == size >= max_audio_buffer
        none == [buffer |-> buf, emit |-> FALSE, audio |-> <<>>]
    IN  IF ts = <<>>
        THEN IF buffer_is_full
             THEN [none EXCEPT !.buffer = [buf EXCEPT !.lo = buf.hi - ((size * 9) \div 10)]]
             ELSE none
        ELSE LET speech_start_sample == ts[1].start
                 speech_end_sample == ts[Len(ts)].end
                 silence_samples == size - speech_end_sample
             IN  IF silence_samples >= min_silence_samples
                 THEN [buffer |-> [buf EXCEPT !.lo = buf.lo + speech_end_sample],
                       emit |-> TRUE, audio |-> SpeechSamples(buf, ts)]
                 ELSE IF buffer_is_full
                      THEN IF speech_start_sample = 0
                           THEN [buffer |-> EmptyBuffer(buf), emit |-> TRUE,
                                 audio |-> SpeechSamples(buf, ts)]
                           ELSE [none EXCEPT !.buffer =
                                     [buf EXCEPT !.lo = buf.lo + speech_start_sample]]
                      ELSE none

\* incoming_queue.get() returns a frame
VadGet ==
    /\ Running(T_VAD)
    /\ vad.pc = "get"
    /\ queues[INCOMING] # <<>>
    /\ vad' = [pc |-> "resample", chunk |-> Head(queues[INCOMING])]
    /\ queues' = Got(queues, INCOMING)
    /\ UNCHANGED <<is_tts_playing, shutdown_event, tasks, waiter, start_pc,
                   audio_buffer, stt, agent, ws, mux, sent, offers, adapters>>

\* the tasks after VADProcessor.process_audio_chunk raised: the pipeline's
\* `except Exception` is outside the loop, so the stage returns
VadFailure == Returned(T_VAD)

\* `self._audio_buffer = np.array([], dtype=np.int16)` before the re-raise
BufferAfterFailure(buf) == EmptyBuffer(buf)

\* the resampling worker answers: the samples are appended, and a buffer
\* shorter than _min_audio_samples ends the frame; worker_ok FALSE is any
\* failure of the executor
VadResample(worker_ok) ==
    /\ Running(T_VAD)
    /\ vad.pc = "resample"
    /\ LET n == AudioResampler(vad.chunk.audio, resample_ratio)
           appended == [audio_buffer EXCEPT
                           !.hi = @ + n,
                           !.frames = Append(@, [at |-> audio_buffer.hi,
                                                 timestamp |-> vad.chunk.timestamp])]
       IN  IF n < 0 \/ ~worker_ok
           THEN /\ audio_buffer' = BufferAfterFailure(audio_buffer)
                /\ tasks' = VadFailure
                /\ vad' = vad
           ELSE /\ audio_buffer' = appended
                /\ IF BufSize(appended) < min_audio_samples
                   THEN vad' = IdleVad /\ tasks' = LoopTop(T_VAD)
                   ELSE vad' = [vad EXCEPT !.pc = "detect"] /\ tasks' = tasks
    /\ UNCHANGED <<queues, is_tts_playing, shutdown_event, waiter, start_pc, stt,
                   agent, ws, mux, sent, offers, adapters>>

\* the VAD worker answers ts: the segmentation, and a Segment goes to the
\* processed-audio queue
VadDetect(ts) ==
    /\ Running(T_VAD)
    /\ vad.pc = "detect"
    /\ LET r == Segmentation(audio_buffer, ts)
       IN  /\ audio_buffer' = [r.buffer EXCEPT !.heard = @ \/ ts # <<>>]
           /\ queues' = IF r.emit
                        THEN Put(queues, PROCESSED, [vad.chunk EXCEPT !.audio = r.audio])
                        ELSE queues
    /\ vad' = IdleVad
    /\ tasks' = LoopTop(T_VAD)
    /\ UNCHANGED <<is_tts_playing, shutdown_event, waiter, start_pc, stt, agent,
                   ws, mux, sent, offers, adapters>>

\* the VAD worker raises
VadDetectRaises ==
    /\ Running(T_VAD)
    /\ vad.pc = "detect"
    /\ audio_buffer' = BufferAfterFailure(audio_buffer)
    /\ tasks' = VadFailure
    /\ UNCHANGED <<queues, is_tts_playing, shutdown_event, waiter, start_pc, vad,
                   stt, agent, ws, mux, sent, offers, adapters>>


-----------------------------------------------------------------------------
(* Transcriber: transcribe_audio_chunk *)

\* the chunks an STT stream may yield
SttChunks == {<<"h", "i">>}

\* processed_audio_queue.get() returns a Segment: the start event, and the
\* STT stream is opened
TranscribeStart ==
    /\ Running(T_STT)
    /\ stt.pc = "get"
    /\ queues[PROCESSED] # <<>>
    /\ LET audio_chunk == Head(queues[PROCESSED])
       IN  /\ queues' = AddEventMessage(Got(queues, PROCESSED), TRANSCRIPTION_START,
                                        <<>>, audio_chunk.timestamp, audio_chunk.id)
           /\ stt' = [pc |-> "stream", chunk |-> audio_chunk, transcript |-> <<>>, n |-> 0]
    /\ UNCHANGED <<is_tts_playing, shutdown_event, tasks, waiter, start_pc,
                   audio_buffer, vad, agent, ws, mux, sent, offers, adapters>>

\* the STT stream yields a chunk
SttYields(c) ==
    /\ Running(T_STT)
    /\ stt.pc = "stream"
    /\ stt.n < MaxChunks
    /\ queues' = AddEventMessage(queues, TRANSCRIPTION_TEXT_DELTA, c, 0, stt.chunk.id)
    /\ stt' = [stt EXCEPT !.transcript = @ \o c, !.n = @ + 1]
    /\ UNCHANGED <<is_tts_playing, shutdown_event, tasks, waiter, start_pc,
                   audio_buffer, vad, agent, ws, mux, sent, offers, adapters>>

\* the queues after the STT stream ended: the end event, then the Segment,
\* its audio cleared and its transcript set, to the transcription queue
TranscribeFinish(qs, audio_chunk, transcript) ==
    Put(AddEventMessage(qs, TRANSCRIPTION_END, <<>>, 0, audio_chunk.id),
        TRANSCRIPTION, [audio_chunk EXCEPT !.audio = <<>>, !.transcript = transcript])

\* the STT stream ends
SttEnds ==
    /\ Running(T_STT)
    /\ stt.pc = "stream"
    /\ queues' = TranscribeFinish(queues, stt.chunk, stt.transcript)
    /\ stt' = IdleStt
    /\ tasks' = LoopTop(T_STT)
    /\ UNCHANGED <<is_tts_playing, shutdown_event, waiter, start_pc, audio_buffer,
                   vad, agent, ws, mux, sent, offers, adapters>>

\* the tasks after the STT stream raised: `except Exception` is outside the
\* loop, so the stage returns
SttFailure == Returned(T_STT)

\* the STT stream raises
SttRaises ==
    /\ Running(T_STT)
    /\ stt.pc = "stream"
    /\ tasks' = SttFailure
    /\ stt' = [stt EXCEPT !.pc = IF tasks'[T_STT] = "done" THEN "stream" ELSE "get"]
    /\ UNCHANGED <<queues, is_tts_playing, shutdown_event, waiter, start_pc,
                   audio_buffer, vad, agent, ws, mux, sent, offers, adapters>>

-----------------------------------------------------------------------------
(* AgentDriver: generate_agent_response *)

sentence_endings == {".", "!", "?", "\n"}

\* the chunks an agent stream may yield
AgentChunks == {<<"a">>, <<".", "b">>}

\* the chunks a TTS stream may yield (arrays of samples)
TtsChunks == {<<"s">>}

\* base64.b64encode(chunk.tobytes()).decode("utf-8")
Base64(chunk) == <<"b64">> \o chunk

HasEnding(text) == \E i \in 1..Len(text) : text[i] \in sentence_endings

\* a mutant: the prefix ends at the leftmost ending
FirstEndingIdx(text) ==
    CHOOSE i \in 1..Len(text) :
        /\ text[i] \in sentence_endings
        /\ \A j \in 1..(i - 1) : text[j] \notin sentence_endings

\* max(text.rfind(ending) ...) + 1: the length of the prefix that ends at
\* the rightmost ending
LastEndingIdx(text) ==
    CHOOSE i \in 1..Len(text) :
        /\ text[i] \in sentence_endings
        /\ \A j \in (i + 1)..Len(text) : text[j] \notin sentence_endings

IsSpace(ch) == ch \in {" ", "\n", "\t", "\r"}

\* text.strip() is not empty
StripNonEmpty(text) == \E i \in 1..Len(text) : ~IsSpace(text[i])

\* transcription_queue.get() returns a Segment: the full transcript event,
\* and the agent stream is opened
AgentStart ==
    /\ Running(T_AGENT)
    /\ agent.pc = "get"
    /\ queues[TRANSCRIPTION] # <<>>
    /\ LET audio_chunk == Head(queues[TRANSCRIPTION])
       IN  /\ queues' = AddEventMessage(Got(queues, TRANSCRIPTION), TRANSCRIPTION_TEXT,
                                        audio_chunk.transcript, audio_chunk.timestamp,
                                        audio_chunk.id)
           /\ agent' = [IdleAgent EXCEPT !.pc = "agent", !.chunk = audio_chunk]
    /\ UNCHANGED <<is_tts_playing, shutdown_event, tasks, waiter, start_pc,
                   audio_buffer, vad, stt, ws, mux, sent, offers, adapters>>

\* a mutant: the text of a sentence is not queued before its TTS stream
AgentChunkEventsSpeechOnly(a, text) ==
    (IF a.first_response_chunk
     THEN <<<<AI_RESPONSE_TEXT_START, <<>>, 0, a.chunk.id>>>> ELSE <<>>)
    \o (IF HasEnding(text) /\ a.first_speech_chunk
        THEN <<<<AI_RESPONSE_SPEECH_START, <<>>, 0, a.chunk.id>>>> ELSE <<>>)

\* the events of one agent chunk, before its TTS stream
AgentChunkEvents(a, text) ==
    (IF a.first_response_chunk
     THEN <<<<AI_RESPONSE_TEXT_START, <<>>, 0, a.chunk.id>>>> ELSE <<>>)
    \o (IF HasEnding(text)
        THEN (IF a.first_speech_chunk
              THEN <<<<AI_RESPONSE_SPEECH_START, <<>>, 0, a.chunk.id>>>> ELSE <<>>)
             \o <<<<AI_RESPONSE_TEXT_DELTA, SubSeq(text, 1, LastEndingIdx(text)), 0, a.chunk.id>>>>
        ELSE <<>>)

\* the agent stream yields a chunk: it joins the buffer, and the text up to
\* the last sentence ending goes to the client and to a TTS stream
AgentYields(c) ==
    /\ Running(T_AGENT)
    /\ agent.pc = "agent"
    /\ LET text == agent.text_buffer \o c
       IN  /\ queues' = AddEventMessages(queues, AgentChunkEvents(agent, text))
           /\ agent' =
                IF HasEnding(text)
                THEN [agent EXCEPT !.pc = "tts",
                                   !.text_buffer = SubSeq(text, LastEndingIdx(text) + 1, Len(text)),
                                   !.tts_text = SubSeq(text, 1, LastEndingIdx(text)),
                                   !.first_response_chunk = FALSE,
                                   !.first_speech_chunk = FALSE,
                                   !.n = @ + 1, !.m = 0]
                ELSE [agent EXCEPT !.text_buffer = text,
                                   !.first_response_chunk = FALSE,
                                   !.n = @ + 1]
    /\ UNCHANGED <<is_tts_playing, shutdown_event, tasks, waiter, start_pc,
                   audio_buffer, vad, stt, ws, mux, sent, offers, adapters>>

\* a mutant: the two end events in the other order
TurnEndEventsSwapped(turn) ==
    <<<<AI_RESPONSE_SPEECH_END, <<>>, 0, turn>>, <<AI_RESPONSE_TEXT_END, <<>>, 0, turn>>>>

\* the two events that end a turn
TurnEndEvents(turn) ==
    <<<<AI_RESPONSE_TEXT_END, <<>>, 0, turn>>, <<AI_RESPONSE_SPEECH_END, <<>>, 0, turn>>>>

\* the agent stream ends: text left in the buffer goes to the client and to
\* a TTS stream; with none left the turn ends
AgentEnds ==
    /\ Running(T_AGENT)
    /\ agent.pc = "agent"
    /\ IF StripNonEmpty(agent.text_buffer)
       THEN /\ queues' = AddEventMessage(queues, AI_RESPONSE_TEXT_DELTA,
                                         agent.text_buffer, 0, agent.chunk.id)
            /\ agent' = [agent EXCEPT !.pc = "tts_final", !.tts_text = agent.text_buffer,
                                      !.m = 0]
            /\ tasks' = tasks
       ELSE /\ queues' = AddEventMessages(queues, TurnEndEvents(agent.chunk.id))
            /\ agent' = IdleAgent
            /\ tasks' = LoopTop(T_AGENT)
    /\ UNCHANGED <<is_tts_playing, shutdown_event, waiter, start_pc, audio_buffer,
                   vad, stt, ws, mux, sent, offers, adapters>>

\* the TTS stream yields a chunk
TtsYields(c) ==
    /\ Running(T_AGENT)
    /\ agent.pc \in {"tts", "tts_final"}
    /\ agent.m < MaxChunks
    /\ queues' = AddEventMessage(queues, AI_RESPONSE_SPEECH_DELTA, Base64(c), 0,
                                 agent.chunk.id)
    /\ agent' = [agent EXCEPT !.m = @ + 1]
    /\ UNCHANGED <<is_tts_playing, shutdown_event, tasks, waiter, start_pc,
                   audio_buffer, vad, stt, ws, mux, sent, offers, adapters>>

\* the TTS stream ends: back to the agent stream, or the turn ends
TtsEnds ==
    /\ Running(T_AGENT)
    /\ agent.pc \in {"tts", "tts_final"}
    /\ IF agent.pc = "tts"
       THEN /\ agent' = [agent EXCEPT !.pc = "agent"]
            /\ queues' = queues
            /\ tasks' = tasks
       ELSE /\ queues' = AddEventMessages(queues, TurnEndEvents(agent.chunk.id))
            /\ agent' = IdleAgent
            /\ tasks' = LoopTop(T_AGENT)
    /\ UNCHANGED <<is_tts_playing, shutdown_event, waiter, start_pc, audio_buffer,
                   vad, stt, ws, mux, sent, offers, adapters>>

\* the agent stream or a TTS stream raises: `except Exception` is outside
\* the loop, so the stage returns
AgentRaises ==
    /\ Running(T_AGENT)
    /\ agent.pc \in {"agent", "tts", "tts_final"}
    /\ tasks' = Returned(T_AGENT)
    /\ UNCHANGED <<queues, is_tts_playing, shutdown_event, waiter, start_pc,
                   audio_buffer, vad, stt, agent, ws, mux, sent, offers, adapters>>

-----------------------------------------------------------------------------
(* EventMux: send_json_response *)

\* response_queue.get() returns an event
MuxGet ==
    /\ Running(T_MUX)
    /\ mux.pc = "get"
    /\ queues[RESPONSE] # <<>>
    /\ mux' = [pc |-> "send", response |-> Head(queues[RESPONSE])]
    /\ queues' = Got(queues, RESPONSE)
    /\ UNCHANGED <<is_tts_playing, shutdown_event, tasks, waiter, start_pc,
                   audio_buffer, vad, stt, agent, ws, sent, offers, adapters>>

\* websocket.send_json(response) returns
MuxSend ==
    /\ Running(T_MUX)
    /\ mux.pc = "send"
    /\ sent' = Delivered(sent, mux.response)
    /\ mux' = IdleMux
    /\ tasks' = LoopTop(T_MUX)
    /\ UNCHANGED <<queues, is_tts_playing, shutdown_event, waiter, start_pc,
                   audio_buffer, vad, stt, agent, ws, offers, adapters>>

\* websocket.send_json(response) raises: `except Exception` is outside the
\* loop, so the stage returns
MuxSendRaises ==
    /\ Running(T_MUX)
    /\ mux.pc = "send"
    /\ tasks' = Returned(T_MUX)
    /\ UNCHANGED <<queues, is_tts_playing, shutdown_event, waiter, start_pc,
                   audio_buffer, vad, stt, agent, ws, mux, sent, offers, adapters>>

-----------------------------------------------------------------------------
(* The pipeline *)

\* every step of the pipeline
Next ==
    \/ Start
    \/ Stop
    \/ WaiterFires
    \/ WaitReturns
    \/ Cleanup
    \/ \E t \in TaskNames : TimeoutExit(t)
    \/ \E msg \in ClientMessages : ws.count < MaxMsgs /\ ProcessIncomingData(msg)
    \/ ReceiveRaises
    \/ VadGet
    \/ \E worker_ok \in BOOLEAN : VadResample(worker_ok)
    \/ \E ts \in VadResults(BufSize(audio_buffer)) : VadDetect(ts)
    \/ VadDetectRaises
    \/ TranscribeStart
    \/ \E c \in SttChunks : SttYields(c)
    \/ SttEnds
    \/ SttRaises
    \/ AgentStart
    \/ \E c \in AgentChunks : agent.n < MaxChunks /\ AgentYields(c)
    \/ AgentEnds
    \/ \E c \in TtsChunks : TtsYields(c)
    \/ TtsEnds
    \/ AgentRaises
    \/ MuxGet
    \/ MuxSend
    \/ MuxSendRaises

Spec == Init /\ [][Next]_vars

-----------------------------------------------------------------------------
(* The front of the pipeline: any client, Ingest, VADSegmenter, and the     *)
(* lifecycle; the three later stages are never scheduled.                  *)

NextFront ==
    \/ Start
    \/ Stop
    \/ WaiterFires
    \/ WaitReturns
    \/ Cleanup
    \/ \E t \in {T_INGEST, T_VAD} : TimeoutExit(t)
    \/ \E msg \in ClientMessages : ws.count < MaxMsgs /\ ProcessIncomingData(msg)
    \/ ReceiveRaises
    \/ VadGet
    \/ \E worker_ok \in BOOLEAN : VadResample(worker_ok)
    \/ \E ts \in VadResults(BufSize(audio_buffer)) : VadDetect(ts)
    \/ VadDetectRaises

SpecFront == Init /\ [][NextFront]_vars

-----------------------------------------------------------------------------
(* Turns: a client that sends well-formed frames and reads every event as  *)
(* soon as it is queued, workers that answer, and STT, agent and TTS       *)
(* streams that yield, end or raise.                                       *)

GoodFrames == {m \in BinaryMessages : AudioResampler(m.nbytes - header_bytes, resample_ratio) > 0}

\* EventMux has an event to get or to send
MuxBusy == Running(T_MUX) /\ (mux.pc = "send" \/ queues[RESPONSE] # <<>>)

NextTurns ==
    \/ MuxGet
    \/ MuxSend
    \/ ~MuxBusy /\ Start
    \/ ~MuxBusy /\ WaitReturns
    \/ ~MuxBusy /\ Cleanup
    \/ \E msg \in GoodFrames : ~MuxBusy /\ ws.count < MaxFrames /\ ProcessIncomingData(msg)
    \/ ~MuxBusy /\ VadGet
    \/ ~MuxBusy /\ VadResample(TRUE)
    \/ \E ts \in VadResults(BufSize(audio_buffer)) : ~MuxBusy /\ VadDetect(ts)
    \/ ~MuxBusy /\ TranscribeStart
    \/ \E c \in SttChunks : ~MuxBusy /\ SttYields(c)
    \/ ~MuxBusy /\ SttEnds
    \/ ~MuxBusy /\ SttRaises
    \/ ~MuxBusy /\ AgentStart
    \/ \E c \in AgentChunks : ~MuxBusy /\ agent.n < MaxChunks /\ AgentYields(c)
    \/ ~MuxBusy /\ AgentEnds
    \/ \E c \in TtsChunks : ~MuxBusy /\ TtsYields(c)
    \/ ~MuxBusy /\ TtsEnds
    \/ ~MuxBusy /\ AgentRaises

SpecTurns == Init /\ [][NextTurns]_vars

-----------------------------------------------------------------------------
(* One queue: a producer that offers the items 1, 2, ... with                *)
(* _add_queue_no_wait, and a consumer that takes them with get, at any     *)
(* rates.  offers records what was offered, what the consumer took and      *)
(* what did not get in, with the size of the queue at that offer.          *)

InitQueue ==
    /\ InitPipeline
    /\ offers \in {[NoOffers EXCEPT !.which = n] : n \in QueueNames}
    /\ adapters = IdleAdapters

\* the producer calls _add_queue_no_wait(queue, item), which returns
Offer ==
    /\ offers.offered < MaxOffers
    /\ LET item == offers.offered + 1
           q == queues[offers.which]
       IN  /\ queues' = Put(queues, offers.which, item)
           /\ offers' = [offers EXCEPT
                           !.offered = item,
                           !.dropped = IF queues'[offers.which] = Append(q, item)
                                       THEN @
                                       ELSE @ \cup {[item |-> item, qsize |-> Len(q)]}]
    /\ UNCHANGED <<is_tts_playing, shutdown_event, tasks, waiter, start_pc,
                   audio_buffer, vad, stt, agent, ws, mux, sent, adapters>>

\* the consumer's get returns
Take ==
    /\ queues[offers.which] # <<>>
    /\ offers' = [offers EXCEPT !.taken = Append(@, Head(queues[offers.which]))]
    /\ queues' = Got(queues, offers.which)
    /\ UNCHANGED <<is_tts_playing, shutdown_event, tasks, waiter, start_pc,
                   audio_buffer, vad, stt, agent, ws, mux, sent, adapters>>

NextQueue == Offer \/ Take

SpecQueue == InitQueue /\ [][NextQueue]_vars

-----------------------------------------------------------------------------
(* The queues' bound and what a full queue does *)

\* C3: at every moment each of the four queues (incoming, processed-audio,
\* transcription, response) holds at most 60 items.
C3_QueuesBounded == \A n \in QueueNames : Len(queues[n]) <= MAX_QUEUE_SIZE

\* a queue holds 60 items and an offer to it has been refused
C3_Witness ==
    /\ offers.which # ""
    /\ Len(queues[offers.which]) = MAX_QUEUE_SIZE
    /\ offers.dropped # {}

\* the items offered so far that got in, in the order of the offers
Accepted ==
    SelectSeq([i \in 1..offers.offered |-> i],
              LAMBDA i : \A d \in offers.dropped : d.item # i)

\* C4: what the consumer has taken followed by what the queue holds is the
\* sequence of the offered items without the refused ones, in the order of
\* the offers; an item is refused only when the queue held 60 items at its
\* offer, and the offer then leaves the queue as it was; an offer always
\* returns, so the next one is always possible.
C4_DropNewest ==
    /\ offers.taken \o queues[offers.which] = Accepted
    /\ \A d \in offers.dropped : d.qsize = MAX_QUEUE_SIZE
    /\ offers.offered < MaxOffers => ENABLED Offer

\* an item was refused at a full queue and the consumer went on taking
C4_Witness ==
    /\ offers.dropped # {}
    /\ Len(offers.taken) > 1
    /\ Len(queues[offers.which]) < MAX_QUEUE_SIZE

-----------------------------------------------------------------------------
(* Ingest and VADSegmenter: the TTS gate and the failures of a frame *)

\* C5: a binary message that Ingest receives after a tts_start and before
\* the next tts_end leaves the incoming queue as it was, and Ingest is still
\* running after it (unless stop() was called); a binary message of at least
\* 10 bytes received outside such a window is appended to the incoming
\* queue (when the queue is not full).
C5_BargeInGate ==
    [][\A msg \in BinaryMessages :
          ProcessIncomingData(msg) =>
              IF ws.window
              THEN /\ queues' = queues
                   /\ ~shutdown_event => tasks'[T_INGEST] = "running"
              ELSE (msg.nbytes >= header_bytes /\ Len(queues[INCOMING]) < MAX_QUEUE_SIZE)
                   => queues'[INCOMING] =
                          Append(queues[INCOMING], FrameOf(msg, ws.count + 1))]_vars

\* tts_start, then a well-formed frame: nothing was enqueued or processed
C5_Witness ==
    /\ ws.window
    /\ ws.count = 2
    /\ ws.last.kind = "bytes"
    /\ ws.last.nbytes > header_bytes
    /\ queues[INCOMING] = <<>>
    /\ vad = IdleVad
    /\ audio_buffer.hi = 0
    /\ Running(T_INGEST)

\* C6, as stated: while is_tts_playing is set, VADSegmenter dequeues no
\* frame from the incoming queue and appends no samples to the VAD buffer.
C6_NothingProcessedWhileTtsPlays ==
    [][is_tts_playing => (~VadGet /\ audio_buffer'.hi = audio_buffer.hi)]_vars

\* C6, amended: no frame that Ingest received after a tts_start and before
\* the next tts_end is in the incoming queue or in the hands of
\* VADSegmenter; a frame received before the tts_start may be.
C6_NoFrameOfTheWindowProcessed ==
    /\ \A i \in 1..Len(queues[INCOMING]) : ~queues[INCOMING][i].rx_tts
    /\ ~vad.chunk.rx_tts

\* a frame, tts_start, a second frame: is_tts_playing is set, the second
\* frame is nowhere, and VADSegmenter is working on the first
C6_Witness ==
    /\ is_tts_playing
    /\ ws.count = 3
    /\ ws.last.kind = "bytes"
    /\ ws.last.nbytes > header_bytes
    /\ queues[INCOMING] = <<>>
    /\ vad.pc = "detect"
    /\ vad.chunk.id = 1

\* C7, as stated: after Ingest received a text message that is not valid
\* JSON (and stop() was not called) the Ingest stage is running, so the
\* next message is handled and no cleanup follows.
C7_MalformedJsonDropped ==
    [][\A msg \in TextFrames :
          (~JsonLoads(msg.text).ok /\ ~shutdown_event /\ ProcessIncomingData(msg))
              => tasks'[T_INGEST] = "running"]_vars

\* C8, as stated: when the frame VADSegmenter took has an empty payload or
\* a payload of an odd number of bytes (and stop() was not called), its
\* processing leaves every stage as it was, running.
C8_MalformedFrameDropped ==
    [][(/\ vad.pc = "resample"
        /\ (vad.chunk.audio = 0 \/ vad.chunk.audio % 2 = 1)
        /\ ~shutdown_event
        /\ VadResample(TRUE))
           => tasks' = tasks]_vars

\* C9, as stated: when resampling or VAD inference raises (and stop() was
\* not called), the VAD buffer is empty afterwards and VADSegmenter is
\* running, back at reading the incoming queue.
C9_WorkerFailureContinues ==
    [][(~shutdown_event /\ (VadResample(FALSE) \/ VadDetectRaises))
           => /\ audio_buffer'.lo = audio_buffer'.hi
              /\ tasks'[T_VAD] = "running"
              /\ vad'.pc = "get"]_vars

-----------------------------------------------------------------------------
(* The event stream of a turn *)

\* the turns: 0 is the scripted opening prompt, the others are the frames
Turns == 0..MaxFrames

\* the events enqueued and not yet sent, oldest first
Pending == (IF mux.pc = "send" THEN <<mux.response>> ELSE <<>>) \o queues[RESPONSE]

\* the types of the events enqueued so far for a turn
TurnTypes(t) ==
    SentOf(sent, t) \cup {Pending[i].type : i \in {j \in 1..Len(Pending) : Pending[j].turn = t}}

NoneCancelled == \A t \in TaskNames : tasks[t] # "cancelled"

\* C1, as stated: in a session where nothing was cancelled, a start event
\* that was enqueued for a turn without its end event belongs to a stage
\* that is still running in that turn's stream, so that the end event can
\* follow.
C1_Bracketing ==
    NoneCancelled =>
        \A t \in Turns :
            /\ (TRANSCRIPTION_START \in TurnTypes(t) /\ TRANSCRIPTION_END \notin TurnTypes(t))
                   => (Running(T_STT) /\ stt.pc = "stream" /\ stt.chunk.id = t)
            /\ (AI_RESPONSE_TEXT_START \in TurnTypes(t) /\ AI_RESPONSE_TEXT_END \notin TurnTypes(t))
                   => (Running(T_AGENT) /\ agent.pc # "get" /\ agent.chunk.id = t)
            /\ (AI_RESPONSE_SPEECH_START \in TurnTypes(t) /\ AI_RESPONSE_SPEECH_END \notin TurnTypes(t))
                   => (Running(T_AGENT) /\ agent.pc # "get" /\ agent.chunk.id = t)

\* the position of an event type in the order of a turn
Rank(type) ==
    CASE type = TRANSCRIPTION_START -> 1
      [] type = TRANSCRIPTION_TEXT_DELTA -> 2
      [] type = TRANSCRIPTION_END -> 3
      [] type = TRANSCRIPTION_TEXT -> 4
      [] type = AI_RESPONSE_TEXT_START -> 5
      [] type \in {AI_RESPONSE_TEXT_DELTA, AI_RESPONSE_SPEECH_START,
                   AI_RESPONSE_SPEECH_DELTA} -> 6
      [] type = AI_RESPONSE_TEXT_END -> 7
      [] type = AI_RESPONSE_SPEECH_END -> 8

\* C2: the events enqueued for a turn are in the order
\* user.transcript.start, user.transcript.text.delta*, user.transcript.end,
\* user.transcript.text, ai.response.text.start, text and speech deltas,
\* ai.response.text.end, ai.response.speech.end: an enqueued event is of no
\* earlier position than any event of its turn that was enqueued before it.
C2_TurnOrder ==
    \A i \in 1..Len(Pending) :
        /\ \A type \in SentOf(sent, Pending[i].turn) : Rank(type) <= Rank(Pending[i].type)
        /\ \A j \in 1..(i - 1) :
               Pending[j].turn = Pending[i].turn => Rank(Pending[j].type) <= Rank(Pending[i].type)

\* the turn of a frame went from user.transcript.start to
\* ai.response.speech.end, with deltas of both kinds
C2_Witness ==
    \E t \in Turns \ {0} :
        {TRANSCRIPTION_START, TRANSCRIPTION_TEXT_DELTA, TRANSCRIPTION_END,
         TRANSCRIPTION_TEXT, AI_RESPONSE_TEXT_START, AI_RESPONSE_TEXT_DELTA,
         AI_RESPONSE_SPEECH_DELTA, AI_RESPONSE_TEXT_END, AI_RESPONSE_SPEECH_END}
            \subseteq SentOf(sent, t)

\* C10, as stated: when the STT stream raises for a Segment (and stop() was
\* not called), nothing is put on the transcription queue and the
\* Transcriber is running, back at reading the processed-audio queue.
C10_SttFailureContinues ==
    [][(~shutdown_event /\ SttRaises)
           => /\ queues'[TRANSCRIPTION] = queues[TRANSCRIPTION]
              /\ tasks'[T_STT] = "running"
              /\ stt'.pc = "get"]_vars

-----------------------------------------------------------------------------
(* AgentDriver: a failure of the agent or of a TTS stream *)

\* C11, as stated: when the agent stream or a TTS stream raises during a
\* turn (and stop() was not called), ai.response.text.end and
\* ai.response.speech.end are enqueued for that turn and the AgentDriver is
\* running, back at reading the transcription queue.
C11_AgentFailureClosesTurn ==
    [][(~shutdown_event /\ AgentRaises)
           => /\ queues'[RESPONSE] =
                     AddEventMessages(queues, TurnEndEvents(agent.chunk.id))[RESPONSE]
              /\ tasks'[T_AGENT] = "running"
              /\ agent'.pc = "get"]_vars

-----------------------------------------------------------------------------
(* The segmenter: a client that sends frames of one and of ten seconds,     *)
(* stamped with its clock, Ingest and VADSegmenter with workers that        *)
(* answer, and a VAD model that may report more than in the other           *)
(* specifications.                                                          *)

\* the n-th binary message of the client: one or ten seconds of 48 kHz PCM
StampedFrames(n) ==
    {[kind |-> "bytes", nbytes |-> header_bytes + seconds * received_audio_sample_rate * 2,
      flag |-> 1, timestamp_ms |-> 1500 + 1000 * n, text |-> ""] : seconds \in {1, 10}}

\* speech_pad_ms as samples
speech_pad_samples == speech_pad_samples_ms * (audio_sample_rate \div 1000)

\* the speech ranges the VAD model may report for a buffer of `size` samples:
\* those of VadResults, speech from a pad after the start to the end of the
\* buffer, a burst of 0.3 s a pad after the start, and two bursts of 0.3 s
\* with 0.2 s between them
VadResultsWide(size) ==
    VadResults(size)
    \cup (IF size > speech_pad_samples
          THEN {<<[start |-> speech_pad_samples, end |-> size]>>}
          ELSE {})
    \cup (IF size >= 4 * speech_pad_samples
          THEN {<<[start |-> speech_pad_samples, end |-> 4 * speech_pad_samples]>>}
          ELSE {})
    \cup (IF size >= 9 * speech_pad_samples
          THEN {<<[start |-> speech_pad_samples, end |-> 4 * speech_pad_samples],
                  [start |-> 6 * speech_pad_samples, end |-> 9 * speech_pad_samples]>>}
          ELSE {})

NextSegmenter ==
    \/ Start
    \/ \E msg \in StampedFrames(ws.count) : ws.count < MaxMsgs /\ ProcessIncomingData(msg)
    \/ VadGet
    \/ VadResample(TRUE)
    \/ \E ts \in VadResultsWide(BufSize(audio_buffer)) : VadDetect(ts)

SpecSegmenter == Init /\ [][NextSegmenter]_vars


RECURSIVE SamplesIn(_)
\* the number of samples of a Segment's audio, given as ranges of the stream
SamplesIn(audio) ==
    IF audio = <<>> THEN 0
    ELSE (Head(audio).end - Head(audio).start) + SamplesIn(Tail(audio))

\* the timestamp of the frame that brought the sample at `offset` of the stream
FrameTimestampAt(frames, offset) ==
    LET i == CHOOSE k \in 1..Len(frames) :
                 /\ frames[k].at <= offset
                 /\ k < Len(frames) => frames[k + 1].at > offset
    IN  frames[i].timestamp

\* the Segment a step of VADSegmenter has put on the processed-audio queue
Emitted == Len(queues'[PROCESSED]) > Len(queues[PROCESSED])
EmittedSegment == queues'[PROCESSED][Len(queues'[PROCESSED])]

\* what the last frame added to the buffer VADSegmenter is looking at
LastAppend == AudioResampler(vad.chunk.audio, resample_ratio)

\* C12, as stated: after a step of VADSegmenter that emitted a Segment or
\* trimmed the buffer, the buffer holds at most
\* max_continuous_speech_s * audio_sample_rate samples.
C12_BufferBoundedAfterTrim ==
    [][\A ts \in VadResultsWide(BufSize(audio_buffer)) :
          (VadDetect(ts) /\ (Emitted \/ audio_buffer' # audio_buffer))
              => BufSize(audio_buffer') <= max_audio_buffer]_vars

\* C13, as stated: when the buffer was above the cap at the end of the step
\* before, it is at or below the cap at the end of this step.
C13_NotAboveCapTwice ==
    [][\A ts \in VadResultsWide(BufSize(audio_buffer)) :
          (VadDetect(ts) /\ BufSize(audio_buffer) - LastAppend > max_audio_buffer)
              => BufSize(audio_buffer') <= max_audio_buffer]_vars

\* C14, as stated: an emitted Segment has between
\* min_continuous_speech_s * audio_sample_rate and
\* max_continuous_speech_s * audio_sample_rate samples, or it was emitted
\* by a forced flush: the buffer was full and the silence after the speech
\* was shorter than the minimum.
C14_SegmentLength ==
    [][\A ts \in VadResultsWide(BufSize(audio_buffer)) :
          (VadDetect(ts) /\ Emitted)
              => \/ /\ min_audio_samples <= SamplesIn(EmittedSegment.audio)
                    /\ SamplesIn(EmittedSegment.audio) <= max_audio_buffer
                 \/ /\ BufSize(audio_buffer) >= max_audio_buffer
                    /\ BufSize(audio_buffer) - ts[Len(ts)].end < min_silence_samples]_vars

\* C15, as stated: on a step where the VAD reports speech, the silence
\* after it is shorter than the minimum and the buffer is full, a Segment
\* with the detected speech is emitted.
C15_ForcedFlushEmits ==
    [][\A ts \in VadResultsWide(BufSize(audio_buffer)) :
          (/\ VadDetect(ts)
           /\ ts # <<>>
           /\ BufSize(audio_buffer) - ts[Len(ts)].end < min_silence_samples
           /\ BufSize(audio_buffer) >= max_audio_buffer
           /\ Len(queues[PROCESSED]) < MAX_QUEUE_SIZE)
              => /\ Emitted
                 /\ EmittedSegment.audio = SpeechSamples(audio_buffer, ts)]_vars

\* C17, as stated: the timestamp of an emitted Segment is the timestamp of
\* the frame that brought the first sample of its speech.
C17_FirstFrameTimestamp ==
    [][\A ts \in VadResultsWide(BufSize(audio_buffer)) :
          (VadDetect(ts) /\ Emitted)
              => EmittedSegment.timestamp =
                     FrameTimestampAt(audio_buffer.frames, EmittedSegment.audio[1].start)]_vars

-----------------------------------------------------------------------------
(* A session of silence *)

AiResponseTypes ==
    {AI_RESPONSE_TEXT_START, AI_RESPONSE_TEXT_DELTA, AI_RESPONSE_TEXT_END,
     AI_RESPONSE_SPEECH_START, AI_RESPONSE_SPEECH_DELTA, AI_RESPONSE_SPEECH_END}

\* no Segment has left VADSegmenter
NoSegment == queues[PROCESSED] = <<>> /\ stt = IdleStt

\* C16, as stated: as long as the VAD has reported no speech, no Segment
\* has been emitted and no ai.response event has been enqueued.
C16_SilenceNoAssistantEvents ==
    ~audio_buffer.heard =>
        /\ NoSegment
        /\ \A t \in Turns : TurnTypes(t) \cap AiResponseTypes = {}

\* C16, amended: as long as the VAD has reported no speech, no Segment has
\* been emitted, and every event that has been enqueued belongs to the
\* turn of the opening prompt that start() seeds.
C16_SilenceOnlyOpeningTurn ==
    ~audio_buffer.heard =>
        /\ NoSegment
        /\ \A t \in Turns \ {0} : TurnTypes(t) = {}

\* every frame was received and processed, the VAD reported no speech, and
\* the opening turn has been spoken to its end
C16_Witness ==
    /\ ~audio_buffer.heard
    /\ ws.count = MaxFrames
    /\ queues[INCOMING] = <<>>
    /\ vad = IdleVad
    /\ Len(audio_buffer.frames) = MaxFrames
    /\ AI_RESPONSE_SPEECH_END \in SentOf(sent, 0)

-----------------------------------------------------------------------------
(* Ingest: the header of a binary message *)

\* C18, as stated: a binary message of at least 10 bytes received while
\* is_tts_playing is clear (and the incoming queue is not full) puts a frame
\* on the incoming queue with the flag of the header, the payload after the
\* header, and the header's timestamp_ms / 1000 as timestamp, to the
\* millisecond.
C18_HeaderParsed ==
    [][\A msg \in BinaryMessages :
          (/\ ProcessIncomingData(msg)
           /\ ~is_tts_playing
           /\ msg.nbytes >= header_bytes
           /\ Len(queues[INCOMING]) < MAX_QUEUE_SIZE)
              => /\ Len(queues'[INCOMING]) = Len(queues[INCOMING]) + 1
                 /\ LET frame == queues'[INCOMING][Len(queues'[INCOMING])]
                    IN  /\ frame.flag = msg.flag
                        /\ frame.audio = msg.nbytes - header_bytes
                        /\ frame.timestamp * 1000 = msg.timestamp_ms]_vars

\* C19: a binary message of fewer than 10 bytes leaves the queues and
\* is_tts_playing as they were, and Ingest is running after it (unless
\* stop() was called).
C19_ShortMessageDiscarded ==
    [][\A msg \in BinaryMessages :
          (ProcessIncomingData(msg) /\ msg.nbytes < header_bytes)
              => /\ queues' = queues
                 /\ is_tts_playing' = is_tts_playing
                 /\ ~shutdown_event => tasks'[T_INGEST] = "running"]_vars

\* the first message of a session was a binary message of fewer than 10
\* bytes, taken while is_tts_playing was clear
C19_Witness ==
    /\ ws.count = 1
    /\ ws.last.kind = "bytes"
    /\ ws.last.nbytes < header_bytes
    /\ ~is_tts_playing
    /\ queues[INCOMING] = <<>>
    /\ vad = IdleVad
    /\ Running(T_INGEST)

-----------------------------------------------------------------------------
(* AgentDriver: the start of the speech *)

\* C20, as stated: a turn for which an ai.response.speech.delta was enqueued
\* has had its ai.response.speech.start enqueued.
C20_SpeechStartBeforeDelta ==
    \A t \in Turns :
        AI_RESPONSE_SPEECH_DELTA \in TurnTypes(t) => AI_RESPONSE_SPEECH_START \in TurnTypes(t)


-----------------------------------------------------------------------------
(* Sentences: the AgentDriver alone on the opening turn, with an agent     *)
(* stream that yields any of the chunks below, at most MaxSentenceChunks   *)
(* of them, and TTS streams that yield MaxChunks chunks each.  The         *)
(* response queue is never read, so it lists every event of the turn in   *)
(* the order of the calls of _add_event_message.                          *)

MaxSentenceChunks == 5    \* chunks an agent stream yields in this specification

\* the chunks 'Hi', ' there', '! How', ' are', ' you?', one chunk with
\* two sentence endings, and a full stop with a space after it
SentenceChunks ==
    {<<"H", "i">>, <<" ", "t", "h", "e", "r", "e">>, <<"!", " ", "H", "o", "w">>,
     <<" ", "a", "r", "e">>, <<" ", "y", "o", "u", "?">>, <<"a", ".", "b", "!">>,
     <<".", " ">>}

NextSentences ==
    \/ Start
    \/ AgentStart
    \/ \E c \in SentenceChunks : agent.n < MaxSentenceChunks /\ AgentYields(c)
    \/ AgentEnds
    \/ \E c \in TtsChunks : TtsYields(c)
    \/ agent.m = MaxChunks /\ TtsEnds

SpecSentences == Init /\ [][NextSentences]_vars

IsTextDelta(ev) == ev.type = AI_RESPONSE_TEXT_DELTA
IsSpeechDelta(ev) == ev.type = AI_RESPONSE_SPEECH_DELTA

\* the text deltas queued so far, in order
TextDeltas(q) == SelectSeq(q, IsTextDelta)

\* the events a step added to the response queue
AddedEvents == SubSeq(queues'[RESPONSE], Len(queues[RESPONSE]) + 1, Len(queues'[RESPONSE]))

\* C21: for any sequence of agent chunks, each time the rolling buffer
\* (the text kept so far and the new chunk) contains one of '.', '!', '?',
\* newline, the AgentDriver queues as ai.response.text.delta the prefix up to
\* and including the rightmost such character, keeps only the rest, and opens
\* one TTS stream on that prefix; with no such character it queues no text
\* delta and keeps the whole text.
C21_SentenceSplit ==
    [][\A c \in SentenceChunks :
          AgentYields(c) =>
             LET text == agent.text_buffer \o c
                 deltas == TextDeltas(AddedEvents)
             IN  IF \E i \in 1..Len(text) : text[i] \in {".", "!", "?", "\n"}
                 THEN \E k \in 1..Len(text) :
                         /\ text[k] \in {".", "!", "?", "\n"}
                         /\ \A j \in (k + 1)..Len(text) : text[j] \notin {".", "!", "?", "\n"}
                         /\ Len(deltas) = 1
                         /\ deltas[1].content = SubSeq(text, 1, k)
                         /\ agent'.text_buffer = SubSeq(text, k + 1, Len(text))
                         /\ agent'.pc = "tts"
                         /\ agent'.tts_text = SubSeq(text, 1, k)
                 ELSE /\ deltas = <<>>
                      /\ agent'.text_buffer = text
                      /\ agent'.pc = "agent"]_vars

\* the chunks 'Hi', ' there', '! How', ' are', ' you?' were yielded and the
\* turn has ended: the text deltas are 'Hi there!' and ' How are you?'
C21_Witness ==
    /\ agent.pc = "get"
    /\ Len(TextDeltas(queues[RESPONSE])) = 2
    /\ TextDeltas(queues[RESPONSE])[1].content =
           <<"H", "i", " ", "t", "h", "e", "r", "e", "!">>
    /\ TextDeltas(queues[RESPONSE])[2].content =
           <<" ", "H", "o", "w", " ", "a", "r", "e", " ", "y", "o", "u", "?">>
    /\ \E i \in 1..Len(queues[RESPONSE]) : queues[RESPONSE][i].type = AI_RESPONSE_SPEECH_END

\* C22: within a turn the text delta of a sentence is queued before every
\* speech delta derived from it, and all speech deltas of a sentence are
\* queued before the text delta of the next sentence: a speech delta is
\* queued only when the last text delta queued carries the text its TTS
\* stream was opened on, and a text delta is queued only when no TTS stream
\* is open.
C22_TextBeforeSpeech ==
    [][/\ (\E c \in TtsChunks : TtsYields(c)) =>
             /\ Len(SelectSeq(AddedEvents, IsSpeechDelta)) = 1
             /\ TextDeltas(queues[RESPONSE]) # <<>>
             /\ TextDeltas(queues[RESPONSE])[Len(TextDeltas(queues[RESPONSE]))].content
                    = agent.tts_text
       /\ (SelectSeq(AddedEvents, IsSpeechDelta) # <<>>) =>
             /\ agent.pc \in {"tts", "tts_final"}
             /\ TextDeltas(AddedEvents) = <<>>
       /\ (TextDeltas(AddedEvents) # <<>>) =>
             /\ agent.pc \in {"get", "agent"}
             /\ agent'.pc \in {"agent", "tts", "tts_final"}]_vars

\* two sentences, each followed by its speech delta, then the next text delta
C22_Witness ==
    \E i, j, k, l \in 1..Len(queues[RESPONSE]) :
        /\ i < j /\ j < k /\ k < l
        /\ IsTextDelta(queues[RESPONSE][i])
        /\ IsSpeechDelta(queues[RESPONSE][j])
        /\ IsTextDelta(queues[RESPONSE][k])
        /\ IsSpeechDelta(queues[RESPONSE][l])

-----------------------------------------------------------------------------
(* EventMux alone: the stages call _add_event_message at any rate, and     *)
(* EventMux gets and sends at any rate.  The events are numbered in the    *)
(* order of the calls (in the field turn); offers records the calls and    *)
(* the events a full queue refused.                                        *)

\* a stage calls _add_event_message, which returns
EmitEvent ==
    /\ start_pc = "waiting"
    /\ offers.offered < MaxOffers
    /\ LET n == offers.offered + 1
       IN  /\ queues' = AddEventMessage(queues, AI_RESPONSE_SPEECH_DELTA, <<>>, 0, n)
           /\ offers' = [offers EXCEPT
                           !.offered = n,
                           !.dropped = IF Len(queues'[RESPONSE]) > Len(queues[RESPONSE])
                                       THEN @
                                       ELSE @ \cup {[item |-> n, qsize |-> Len(queues[RESPONSE])]}]
    /\ UNCHANGED <<is_tts_playing, shutdown_event, tasks, waiter, start_pc,
                   audio_buffer, vad, stt, agent, ws, mux, sent, adapters>>

NextMux ==
    \/ Start
    \/ EmitEvent
    \/ MuxGet
    \/ MuxSend

SpecMux == Init /\ [][NextMux]_vars

\* C23: EventMux performs exactly one client send per event it dequeues and
\* sends the events in dequeue order, so the order of delivery is the order
\* of insertion into the response queue: the event sent was sent never
\* before, is later than every event sent before it, and every event
\* inserted before it that the queue accepted has been sent.
C23_DeliveryInOrder ==
    [][MuxSend =>
          LET n == mux.response.turn
          IN  /\ n \notin DOMAIN sent
              /\ \A j \in DOMAIN sent : j < n
              /\ \A j \in 1..(n - 1) :
                     j \in DOMAIN sent \/ j \in {d.item : d \in offers.dropped}
              /\ DOMAIN sent' = DOMAIN sent \cup {n}]_vars

\* the queue was full and refused an event, and an event queued after the
\* refused one has been sent
C23_Witness ==
    \E d \in offers.dropped : \E n \in DOMAIN sent : n > d.item

-----------------------------------------------------------------------------
(* Shutdown: the opening turn with a client that sends nothing and may     *)
(* disconnect, an EventMux whose send may fail, and stop() at any moment.  *)
(* No frame arrives, so VADSegmenter and Transcriber wait on their queues. *)

NextShutdown ==
    \/ Start
    \/ Stop
    \/ WaiterFires
    \/ WaitReturns
    \/ Cleanup
    \/ \E t \in TaskNames : TimeoutExit(t)
    \/ ws.count < MaxMsgs /\ ProcessIncomingData(DisconnectMessage)
    \/ ReceiveRaises
    \/ AgentStart
    \/ \E c \in AgentChunks : agent.n < MaxChunks /\ AgentYields(c)
    \/ AgentEnds
    \/ \E c \in TtsChunks : TtsYields(c)
    \/ TtsEnds
    \/ MuxGet
    \/ MuxSend
    \/ MuxSendRaises

SpecShutdown == Init /\ [][NextShutdown]_vars

\* The event loop runs every callback that is ready: the waiter wakes once
\* the event is set, asyncio.wait returns once a task of its set is done,
\* start() goes on to its finally block, and receive() on a disconnected
\* websocket raises at once.
SpecShutdownFair ==
    /\ SpecShutdown
    /\ WF_vars(WaiterFires)
    /\ WF_vars(WaitReturns)
    /\ WF_vars(Cleanup)
    /\ WF_vars(ReceiveRaises)

\* every task of self.tasks has returned or was cancelled
StagesTerminated == \A t \in TaskNames : tasks[t] \in {"done", "cancelled"}

\* C24: if a send fails in EventMux, the pipeline shuts down: EventMux
\* terminates, start() stops waiting, cleanup runs, and every other stage
\* task is cancelled (or has returned already).
C24_SendFailureShutsDown ==
    (tasks[T_MUX] = "done" /\ mux.pc = "send")
        ~> (start_pc = "done" /\ StagesTerminated)

\* a send failed, cleanup has run and cancelled a stage
C24_Witness ==
    /\ tasks[T_MUX] = "done" /\ mux.pc = "send"
    /\ shutdown_event = FALSE
    /\ start_pc = "done"
    /\ tasks[T_AGENT] = "cancelled"

\* C25: after the client channel disconnects (receive delivers the
\* disconnect message, and raises from then on), Ingest eventually terminates
\* and cleanup eventually runs.
C25_DisconnectEndsIngest ==
    (~ws.connected) ~> (tasks[T_INGEST] \in {"done", "cancelled"} /\ start_pc = "done")

\* the client disconnected, Ingest returned on the error of receive() and
\* cleanup has run, with no stop() and no other stage failing
C25_Witness ==
    /\ ~ws.connected
    /\ tasks[T_INGEST] = "done"
    /\ shutdown_event = FALSE
    /\ tasks[T_MUX] = "cancelled"
    /\ start_pc = "done"

\* C26: when cleanup completes, all four queues (incoming, processed-audio,
\* transcription, response) are empty.
C26_QueuesEmptyAfterCleanup ==
    start_pc = "done" => \A n \in QueueNames : queues[n] = <<>>

\* C27: when cleanup completes, every task start() spawned (the five stage
\* tasks and the shutdown waiter) is finished or cancelled, whether shutdown
\* was requested or a stage exited first.
C27_AllTasksEndedAfterCleanup ==
    start_pc = "done" => StagesTerminated /\ waiter \in {"done", "cancelled"}

\* C28: if stop() sets the flag while start() is waiting then start()
\* eventually returns, and when it has returned each of the five stage tasks
\* has terminated, whatever the stage was doing.
C28_StopTerminates ==
    /\ (shutdown_event /\ start_pc = "waiting") ~> (start_pc = "done")
    /\ [](start_pc = "done" => StagesTerminated)

\* stop() was called, start() has returned, and cleanup cancelled the
\* AgentDriver in a TTS stream and EventMux in a send
C28_Witness ==
    /\ shutdown_event
    /\ start_pc = "done"
    /\ waiter = "done"
    /\ tasks[T_AGENT] = "cancelled" /\ agent.pc = "tts"
    /\ tasks[T_MUX] = "cancelled" /\ mux.pc = "send"
    /\ tasks[T_STT] = "cancelled"

-----------------------------------------------------------------------------
(* Who writes to and who reads from each queue *)

\* a step of the stage task t
StepOf(t) ==
    CASE t = T_INGEST ->
             \/ \E msg \in ClientMessages : ProcessIncomingData(msg)
             \/ ReceiveRaises
      [] t = T_VAD ->
             \/ VadGet
             \/ \E worker_ok \in BOOLEAN : VadResample(worker_ok)
             \/ \E ts \in VadResults(BufSize(audio_buffer)) : VadDetect(ts)
             \/ VadDetectRaises
      [] t = T_STT ->
             \/ TranscribeStart
             \/ \E c \in SttChunks : SttYields(c)
             \/ SttEnds
             \/ SttRaises
      [] t = T_AGENT ->
             \/ AgentStart
             \/ \E c \in AgentChunks : AgentYields(c)
             \/ AgentEnds
             \/ \E c \in TtsChunks : TtsYields(c)
             \/ TtsEnds
             \/ AgentRaises
      [] t = T_MUX -> MuxGet \/ MuxSend \/ MuxSendRaises

\* the stage upstream and the stage downstream of each queue
Producer(q) ==
    CASE q = INCOMING -> T_INGEST
      [] q = PROCESSED -> T_VAD
      [] q = TRANSCRIPTION -> T_STT
      [] q = RESPONSE -> T_AGENT

Consumer(q) ==
    CASE q = INCOMING -> T_VAD
      [] q = PROCESSED -> T_STT
      [] q = TRANSCRIPTION -> T_AGENT
      [] q = RESPONSE -> T_MUX

\* C29 as stated: each of the four queues has exactly one producer and
\* exactly one consumer; no queue is ever written by two different tasks or
\* contexts: a queue grows only in a step of the stage upstream of it and
\* shrinks only in a step of the stage downstream of it.
C29_SingleProducerSingleConsumer ==
    [][\A q \in QueueNames :
          /\ Len(queues'[q]) > Len(queues[q]) => StepOf(Producer(q))
          /\ Len(queues'[q]) < Len(queues[q]) => StepOf(Consumer(q))]_vars

\* C29, amended: the incoming and the processed-audio queue are written by
\* one stage each; the transcription queue is written by the Transcriber and
\* by start(), and the response queue by the Transcriber and the AgentDriver.
\* Each queue is read by the stage downstream of it, and the first three are
\* drained by cleanup as well.
C29_WritersAndReaders ==
    [][\A q \in QueueNames :
          /\ Len(queues'[q]) > Len(queues[q]) =>
                \/ StepOf(Producer(q))
                \/ q = TRANSCRIPTION /\ Start
                \/ q = RESPONSE /\ StepOf(T_STT)
          /\ Len(queues'[q]) < Len(queues[q]) =>
                \/ StepOf(Consumer(q))
                \/ q # RESPONSE /\ Cleanup]_vars

\* the client has events of the opening turn, seeded by start(), and of a
\* turn of its own, written by the Transcriber and by the AgentDriver
C29_Witness ==
    /\ TRANSCRIPTION_TEXT \in SentOf(sent, 0)
    /\ AI_RESPONSE_TEXT_START \in SentOf(sent, 0)
    /\ TRANSCRIPTION_START \in SentOf(sent, 1)
    /\ TRANSCRIPTION_TEXT \in SentOf(sent, 1)
    /\ AI_RESPONSE_TEXT_START \in SentOf(sent, 1)

-----------------------------------------------------------------------------
(* One utterance: a client that sends at most MaxUtterances well-formed    *)
(* frames, workers that answer, and streams that yield and end.  The       *)
(* response queue is never read, so it lists the events in the order of    *)
(* the calls of _add_event_message, which is the order of delivery.        *)

MaxUtterances == 1    \* frames a client sends in this specification

NextUtterance ==
    \/ Start
    \/ \E msg \in GoodFrames : ws.count < MaxUtterances /\ ProcessIncomingData(msg)
    \/ VadGet
    \/ VadResample(TRUE)
    \/ \E ts \in VadResults(BufSize(audio_buffer)) : VadDetect(ts)
    \/ TranscribeStart
    \/ \E c \in SttChunks : SttYields(c)
    \/ SttEnds
    \/ AgentStart
    \/ \E c \in AgentChunks : agent.n < MaxChunks /\ AgentYields(c)
    \/ AgentEnds
    \/ \E c \in TtsChunks : TtsYields(c)
    \/ TtsEnds

SpecUtterance == Init /\ [][NextUtterance]_vars

\* datetime.now().timestamp() when the session starts, in seconds: the
\* client stamped its frames (1500 ms) before it sent them
ServerClock == 2

\* the timestamp of the i-th event queued: the one given, or the server's
\* clock, which has advanced at each call
StampOf(q, i) == IF q[i].timestamp = 0 THEN ServerClock + i ELSE q[i].timestamp

\* C30: for a single utterance processed end to end, the timestamps of the
\* events delivered to the client are non-decreasing in delivery order, from
\* user.transcript.start through ai.response.speech.end.
C30_TimestampsNonDecreasing ==
    \A i, j \in 1..Len(queues[RESPONSE]) :
        (i < j /\ queues[RESPONSE][i].turn = queues[RESPONSE][j].turn)
            => StampOf(queues[RESPONSE], i) <= StampOf(queues[RESPONSE], j)

-----------------------------------------------------------------------------
(* Adapters: one call of stt_stream on an STT adapter, or one call of       *)
(* tts_stream, or a sequence of calls on an LLM object whose streams end;  *)
(* the STT provider answers, streams or fails as it likes.                *)

\* OpenAISTT with its default model and with a model that streams, and
\* GroqSTT with its default model
SttAdapters ==
    {[class |-> "OpenAISTT", model |-> "whisper-1"],
     [class |-> "OpenAISTT", model |-> "gpt-4o-transcribe"],
     [class |-> "GroqSTT", model |-> "whisper-large-v3-turbo"]}

\* stt_stream awaits self.stt (one transcription request, answered with
\* text) and yields the text; GroqSTT.stt_stream ends there, while
\* OpenAISTT.stt_stream goes on with the statements after its `if`
SttAdapterTranscribes(text) ==
    /\ adapters.stt.pc = "call"
    /\ adapters.stt.class = "GroqSTT" \/ adapters.stt.model = "whisper-1"
    /\ adapters' = [adapters EXCEPT
                      !.stt.requests = @ + 1,
                      !.stt.yielded = Append(@, text),
                      !.stt.pc = IF adapters.stt.class = "GroqSTT" THEN "ended" ELSE "resumed"]
    /\ UNCHANGED <<queues, is_tts_playing, shutdown_event, tasks, waiter, start_pc,
                   audio_buffer, vad, stt, agent, ws, mux, sent, offers>>

\* OpenAISTT.stt_stream: transcriptions.create(..., stream=True)
SttAdapterStreamRequest ==
    /\ adapters.stt.class = "OpenAISTT"
    /\ \/ adapters.stt.pc = "resumed"
       \/ adapters.stt.pc = "call" /\ adapters.stt.model # "whisper-1"
    /\ adapters' = [adapters EXCEPT !.stt.requests = @ + 1, !.stt.pc = "streaming"]
    /\ UNCHANGED <<queues, is_tts_playing, shutdown_event, tasks, waiter, start_pc,
                   audio_buffer, vad, stt, agent, ws, mux, sent, offers>>

\* `async for chunk in transcription`: a chunk with a delta is yielded
SttAdapterStreamYields(c) ==
    /\ adapters.stt.pc = "streaming"
    /\ Len(adapters.stt.yielded) <= MaxChunks
    /\ adapters' = [adapters EXCEPT !.stt.yielded = Append(@, c)]
    /\ UNCHANGED <<queues, is_tts_playing, shutdown_event, tasks, waiter, start_pc,
                   audio_buffer, vad, stt, agent, ws, mux, sent, offers>>

\* the stream of the provider ends, or the request or the iteration raises
SttAdapterStreamFinishes(ok) ==
    /\ adapters.stt.pc = "streaming"
    /\ adapters' = [adapters EXCEPT !.stt.pc = IF ok THEN "ended" ELSE "raised"]
    /\ UNCHANGED <<queues, is_tts_playing, shutdown_event, tasks, waiter, start_pc,
                   audio_buffer, vad, stt, agent, ws, mux, sent, offers>>

\* a mutant: an odd rest is yielded as it is
PadNothing(buffer) == buffer

\* `if len(buffer) % 2 == 1: buffer += b"\x00"`
Pad(buffer) == IF Len(buffer) % 2 = 1 THEN buffer \o <<0>> ELSE buffer

\* response.iter_bytes() gives a chunk: it joins the buffer, the complete
\* samples of the buffer are yielded and the rest is kept
TtsAdapterReceives(chunk) ==
    /\ adapters.tts.pc = "streaming"
    /\ Len(adapters.tts.received) + Len(chunk) <= MaxBytes
    /\ LET buffer == adapters.tts.buffer \o chunk
           bytes_to_process == (Len(buffer) \div 2) * 2
       IN  adapters' = [adapters EXCEPT
                          !.tts.received = @ \o chunk,
                          !.tts.yielded = IF Len(buffer) >= 2
                                          THEN Append(@, SubSeq(buffer, 1, bytes_to_process))
                                          ELSE @,
                          !.tts.buffer = IF Len(buffer) >= 2
                                         THEN SubSeq(buffer, bytes_to_process + 1, Len(buffer))
                                         ELSE buffer]
    /\ UNCHANGED <<queues, is_tts_playing, shutdown_event, tasks, waiter, start_pc,
                   audio_buffer, vad, stt, agent, ws, mux, sent, offers>>

\* iter_bytes() ends: what is left in the buffer is padded and yielded
TtsAdapterEnds ==
    /\ adapters.tts.pc = "streaming"
    /\ adapters' = [adapters EXCEPT
                      !.tts.yielded = IF adapters.tts.buffer # <<>>
                                      THEN Append(@, Pad(adapters.tts.buffer)) ELSE @,
                      !.tts.buffer = IF adapters.tts.buffer # <<>>
                                     THEN Pad(adapters.tts.buffer) ELSE @,
                      !.tts.pc = "ended"]
    /\ UNCHANGED <<queues, is_tts_playing, shutdown_event, tasks, waiter, start_pc,
                   audio_buffer, vad, stt, agent, ws, mux, sent, offers>>

\* LLM._create_messages: append the human message, keep the last 40
CreateMessages(messages) ==
    LET appended == Append(messages, "human")
    IN  IF Len(appended) > history_window
        THEN SubSeq(appended, Len(appended) - history_window + 1, Len(appended))
        ELSE appended

\* LLM.generate: the history goes to the model; the answer is not recorded
Generate ==
    /\ adapters.llm.pc = "idle"
    /\ adapters.llm.calls < MaxCalls
    /\ adapters.llm.plain < MaxPlainCalls
    /\ adapters' = [adapters EXCEPT !.llm.messages = CreateMessages(@),
                                    !.llm.calls = @ + 1, !.llm.plain = @ + 1]
    /\ UNCHANGED <<queues, is_tts_playing, shutdown_event, tasks, waiter, start_pc,
                   audio_buffer, vad, stt, agent, ws, mux, sent, offers>>

\* LLM.generate_stream: the history goes to the model
GenerateStream ==
    /\ adapters.llm.pc = "idle"
    /\ adapters.llm.calls < MaxCalls
    /\ adapters' = [adapters EXCEPT !.llm.messages = CreateMessages(@),
                                    !.llm.calls = @ + 1, !.llm.pc = "stream"]
    /\ UNCHANGED <<queues, is_tts_playing, shutdown_event, tasks, waiter, start_pc,
                   audio_buffer, vad, stt, agent, ws, mux, sent, offers>>

\* the stream of the model ends and the answer joins the history
GenerateStreamEnds ==
    /\ adapters.llm.pc = "stream"
    /\ adapters' = [adapters EXCEPT !.llm.messages = Append(@, "ai"), !.llm.pc = "idle"]
    /\ UNCHANGED <<queues, is_tts_playing, shutdown_event, tasks, waiter, start_pc,
                   audio_buffer, vad, stt, agent, ws, mux, sent, offers>>

\* one of the three is in use: a call of stt_stream on one of the STT
\* adapters, a call of tts_stream, or a new LLM object
InitAdapters ==
    /\ InitPipeline
    /\ offers = NoOffers
    /\ adapters \in
         {[IdleAdapters EXCEPT !.stt.pc = "call", !.stt.class = a.class, !.stt.model = a.model] :
             a \in SttAdapters}
         \cup {[IdleAdapters EXCEPT !.tts.pc = "streaming"],
               [IdleAdapters EXCEPT !.llm.pc = "idle", !.llm.messages = <<"system">>]}

NextAdapters ==
    \/ \E text \in SttChunks \cup {<<>>} : SttAdapterTranscribes(text)
    \/ SttAdapterStreamRequest
    \/ \E c \in SttChunks : SttAdapterStreamYields(c)
    \/ \E ok \in BOOLEAN : SttAdapterStreamFinishes(ok)
    \/ \E n \in 0..3 : \E chunk \in [1..n -> {0, 1}] : TtsAdapterReceives(chunk)
    \/ TtsAdapterEnds
    \/ Generate
    \/ GenerateStream
    \/ GenerateStreamEnds

SpecAdapters == InitAdapters /\ [][NextAdapters]_vars

\* C31: for an STT model that does not natively stream (GroqSTT, and
\* OpenAISTT with whisper-1) stt_stream yields exactly one chunk, the full
\* transcript, and then ends without issuing any further transcription
\* request.
C31_OneChunkOneRequest ==
    (adapters.stt.class = "GroqSTT" \/ adapters.stt.model = "whisper-1")
        => /\ adapters.stt.requests <= 1
           /\ Len(adapters.stt.yielded) <= 1
           /\ adapters.stt.pc = "ended" =>
                  adapters.stt.requests = 1 /\ Len(adapters.stt.yielded) = 1

RECURSIVE Flatten(_)
\* the concatenation of the buffers of a sequence
Flatten(buffers) ==
    IF buffers = <<>> THEN <<>> ELSE Head(buffers) \o Flatten(Tail(buffers))

\* C32: for any division of the provider's PCM byte stream into network
\* chunks, every buffer yielded by tts_stream has an even number of bytes,
\* and the concatenation of all yielded buffers equals the provider's bytes
\* in order, followed by one zero byte exactly when the total byte count is
\* odd.
C32_EvenBuffersSameBytes ==
    /\ \A i \in 1..Len(adapters.tts.yielded) : Len(adapters.tts.yielded[i]) % 2 = 0
    /\ adapters.tts.pc = "ended" =>
           Flatten(adapters.tts.yielded) =
               adapters.tts.received
                   \o (IF Len(adapters.tts.received) % 2 = 1 THEN <<0>> ELSE <<>>)

\* three bytes came in the chunks of one and two bytes, and the stream has
\* ended
C32_Witness ==
    /\ adapters.tts.pc = "ended"
    /\ adapters.tts.received = <<1, 1, 1>>
    /\ adapters.tts.yielded = <<<<1, 1>>, <<1, 0>>>>

\* C40: after any number of generate / generate_stream calls on an LLM
\* agent, the first message of the history passed to the model is the system
\* prompt message set at construction, and the history never holds more than
\* 41 messages.
C40_SystemPromptFirst ==
    adapters.llm.pc # "none"
        => /\ adapters.llm.messages[1] = "system"
           /\ Len(adapters.llm.messages) <= history_window + 1


-----------------------------------------------------------------------------
(* The warm-up turn, in the specification of the turns *)

\* C33: the first Segment AgentDriver takes from the transcription queue is
\* the warm-up Segment of start(), with no audio and the scripted prompt:
\* when it takes any other Segment, the client has seen the
\* user.transcript.text of the warm-up turn, and when it takes the warm-up
\* Segment the client has seen that of no turn.
C33_WarmUpFirst ==
    [][AgentStart =>
          LET audio_chunk == Head(queues[TRANSCRIPTION])
              TurnsBegun == {t \in DOMAIN sent : TRANSCRIPTION_TEXT \in sent[t]}
          IN  IF audio_chunk = WarmUpChunk
              THEN /\ TurnsBegun = {}
                   /\ audio_chunk.audio = <<>>
                   /\ audio_chunk.transcript = WarmUpTranscript
              ELSE WarmUpChunk.id \in TurnsBegun]_vars

\* AgentDriver has taken the Segment of an utterance, after the warm-up turn
C33_Witness ==
    /\ agent.pc = "agent"
    /\ agent.chunk # WarmUpChunk
    /\ agent.chunk.transcript # <<>>
    /\ TRANSCRIPTION_TEXT \in SentOf(sent, WarmUpChunk.id)

-----------------------------------------------------------------------------
(* An utterance that is complete, in the specification of the segmenter *)

\* C34: on a step of VADSegmenter where the VAD reports speech and the
\* silence after the last range is at least the minimum, a Segment is
\* emitted whose samples are the reported ranges of the buffer, all of them
\* and in their order, and the buffer afterwards is what the buffer held
\* from the end of the last range on.
C34_UtteranceComplete ==
    [][\A ts \in VadResultsWide(BufSize(audio_buffer)) :
          (/\ VadDetect(ts)
           /\ ts # <<>>
           /\ BufSize(audio_buffer) - ts[Len(ts)].end >= min_silence_samples)
              => /\ Emitted
                 /\ Len(EmittedSegment.audio) = Len(ts)
                 /\ \A i \in 1..Len(ts) :
                        /\ EmittedSegment.audio[i].start = audio_buffer.lo + ts[i].start
                        /\ EmittedSegment.audio[i].end = audio_buffer.lo + ts[i].end
                 /\ audio_buffer'.lo = audio_buffer.lo + ts[Len(ts)].end
                 /\ audio_buffer'.hi = audio_buffer.hi]_vars

\* a Segment of two ranges is on the processed-audio queue, and the buffer
\* starts where the second range ended
C34_Witness ==
    \E i \in 1..Len(queues[PROCESSED]) :
        /\ Len(queues[PROCESSED][i].audio) = 2
        /\ audio_buffer.lo = queues[PROCESSED][i].audio[2].end
        /\ audio_buffer.hi > audio_buffer.lo

-----------------------------------------------------------------------------
(* The text of a turn, in the specification of the sentences *)

\* C35, as stated: the contents of the ai.response.text.delta events of a
\* turn, joined in order, are the chunks the agent yielded for the turn,
\* joined in order: each chunk joins the text queued or the text kept, and
\* when the agent stream ends the text kept is queued.
C35_TextDeltasAreTheChunks ==
    [][LET Said(q) == Flatten([i \in 1..Len(TextDeltas(q)) |-> TextDeltas(q)[i].content])
       IN  /\ \A c \in SentenceChunks :
                 AgentYields(c) =>
                     Said(queues'[RESPONSE]) \o agent'.text_buffer
                         = Said(queues[RESPONSE]) \o agent.text_buffer \o c
           /\ AgentEnds =>
                 Said(queues'[RESPONSE]) = Said(queues[RESPONSE]) \o agent.text_buffer]_vars

-----------------------------------------------------------------------------
(* A full buffer, in the specification of the segmenter *)

\* C36: on a step of VADSegmenter where the buffer is full after the new
\* frame was added, the buffer at the end of the step is strictly shorter
\* than it was after the frame was added, whether the VAD reported no
\* speech, an utterance that is complete, or speech without the silence
\* after it.
C36_FullBufferShrinks ==
    [][\A ts \in VadResultsWide(BufSize(audio_buffer)) :
          (VadDetect(ts) /\ BufSize(audio_buffer) >= max_audio_buffer)
              => BufSize(audio_buffer') < BufSize(audio_buffer)]_vars

\* a buffer that was full, with speech from a pad after its start to its
\* end, was cut to the start of the speech
C36_Witness ==
    /\ vad.pc = "get"
    /\ queues[PROCESSED] = <<>>
    /\ audio_buffer.heard
    /\ audio_buffer.hi = max_audio_buffer
    /\ audio_buffer.lo = speech_pad_samples

-----------------------------------------------------------------------------
(* Turns side by side, in the specification of one utterance *)

\* C37, as stated: the events of different turns do not interleave in the
\* response queue: between the user.transcript.text or the
\* ai.response.text.start of a turn and its ai.response.speech.end, no
\* user.transcript.start, user.transcript.text.delta or user.transcript.end
\* of a later utterance is queued.
C37_TurnsDoNotInterleave ==
    \A i, j, k \in 1..Len(queues[RESPONSE]) :
        LET q == queues[RESPONSE]
        IN  (/\ i < j /\ j < k
             /\ q[i].type \in {TRANSCRIPTION_TEXT, AI_RESPONSE_TEXT_START}
             /\ q[k].type = AI_RESPONSE_SPEECH_END
             /\ q[i].turn = q[k].turn)
                => ~(/\ q[j].type \in {TRANSCRIPTION_START, TRANSCRIPTION_TEXT_DELTA,
                                       TRANSCRIPTION_END}
                     /\ q[j].turn > q[i].turn)

-----------------------------------------------------------------------------
(* The end events of a turn, in the specification of the sentences *)

\* C38, as stated: every ai.response.text.end queued in a turn has the
\* ai.response.text.start of the turn before it, and every
\* ai.response.speech.end the ai.response.speech.start of the turn, also in
\* a turn where the agent yields no chunk or text without a sentence ending.
C38_EndAfterStart ==
    \A k \in 1..Len(queues[RESPONSE]) :
        LET q == queues[RESPONSE]
            Before(type) == \E i \in 1..(k - 1) : q[i].type = type /\ q[i].turn = q[k].turn
        IN  /\ q[k].type = AI_RESPONSE_TEXT_END => Before(AI_RESPONSE_TEXT_START)
            /\ q[k].type = AI_RESPONSE_SPEECH_END => Before(AI_RESPONSE_SPEECH_START)

-----------------------------------------------------------------------------
(* A backlog: a client that sends at most MaxBacklog frames of one second  *)
(* of speech, each after the one before was transcribed, and reads every   *)
(* event as soon as it is queued; a VAD that hears an utterance in every   *)
(* frame, STT streams that end at once, and an AgentDriver, slow as it     *)
(* likes, whose agent stream yields '.b' and whose TTS streams yield       *)
(* MaxChunks chunks.                                                       *)

MaxBacklog == 61    \* frames a client sends in this specification

\* VADSegmenter and Transcriber have nothing to do
UpstreamIdle ==
    /\ queues[INCOMING] = <<>>
    /\ queues[PROCESSED] = <<>>
    /\ vad.pc = "get"
    /\ stt.pc = "get"

NextBacklog ==
    \/ MuxGet
    \/ MuxSend
    \/ ~MuxBusy /\ Start
    \/ \E msg \in GoodFrames :
          ~MuxBusy /\ UpstreamIdle /\ ws.count < MaxBacklog /\ ProcessIncomingData(msg)
    \/ ~MuxBusy /\ VadGet
    \/ ~MuxBusy /\ VadResample(TRUE)
    \/ \E ts \in VadResults(BufSize(audio_buffer)) :
          ~MuxBusy /\ ts # <<>> /\ ts[1].end < BufSize(audio_buffer) /\ VadDetect(ts)
    \/ ~MuxBusy /\ TranscribeStart
    \/ ~MuxBusy /\ SttEnds
    \/ ~MuxBusy /\ AgentStart
    \/ ~MuxBusy /\ agent.n < MaxChunks /\ AgentYields(<<".", "b">>)
    \/ ~MuxBusy /\ agent.n = MaxChunks /\ AgentEnds
    \/ \E c \in TtsChunks : ~MuxBusy /\ TtsYields(c)
    \/ ~MuxBusy /\ agent.m = MaxChunks /\ TtsEnds

SpecBacklog == Init /\ [][NextBacklog]_vars

\* C39, as stated: a Segment for which the Transcriber queued
\* user.transcript.end is consumed by the AgentDriver, which queues its
\* user.transcript.text and an answer, unless the pipeline is shut down
\* first: until then the Segment is on the transcription queue, where the
\* AgentDriver will find it, and it is not lost between the two stages.
C39_TranscribedIsConsumed ==
    \A t \in 1..ws.count :
        TRANSCRIPTION_END \in SentOf(sent, t)
            => \/ \E i \in 1..Len(queues[TRANSCRIPTION]) : queues[TRANSCRIPTION][i].id = t
               \/ agent.chunk.id = t
               \/ TRANSCRIPTION_TEXT \in SentOf(sent, t)
               \/ start_pc = "done"

=============================================================================
